---- MODULE Spec2Model ----
(***************************************************************************)
(* A model of db_manager: the CSV processor (data_processor.py), the row   *)
(* validator (validator.py) and the database sink (database_manager.py).   *)
(*                                                                         *)
(* Strings of the program are sequences of one-character strings, so that  *)
(* int(), float() and the regular expressions are computed character by    *)
(* character.  A Python value is a record with a type tag t and one slot   *)
(* per type (n/e for numbers, s for strings, b for booleans).              *)
(***************************************************************************)
EXTENDS Integers, Sequences, FiniteSets, TLC

(***************************************************************************)
(* Bounds of the model.                                                    *)
(***************************************************************************)
\* the longest input file, in lines
MaxRows == 2
\* the most INSERT statements one run of the sink is followed for
MaxAttempts == 3

(***************************************************************************)
(* Python values.                                                          *)
(***************************************************************************)
\* an int
IntV(i) == [t |-> "int", n |-> i, e |-> 0, s |-> <<>>, b |-> FALSE]
\* a float of value num / 10^exp, exp minimal
FloatV(num, exp) == [t |-> "float", n |-> num, e |-> exp, s |-> <<>>, b |-> FALSE]
\* a str
StrV(str) == [t |-> "str", n |-> 0, e |-> 0, s |-> str, b |-> FALSE]
\* a bool
BoolV(bb) == [t |-> "bool", n |-> 0, e |-> 0, s |-> <<>>, b |-> bb]
\* None
NoneV == [t |-> "none", n |-> 0, e |-> 0, s |-> <<>>, b |-> FALSE]

\* isinstance(v, int): bool is a subclass of int
IsInstanceInt(v) == v.t \in {"int", "bool"}
IsInstanceFloat(v) == v.t = "float"
IsInstanceStr(v) == v.t = "str"
IsInstanceBool(v) == v.t = "bool"

\* the outcome of a call: a returned value, or an exception
Return(v) == [raised |-> FALSE, val |-> v]
Raise == [raised |-> TRUE, val |-> NoneV]

(***************************************************************************)
(* Cells.                                                                  *)
(***************************************************************************)
\* the None object where a cell is absent (not the string "None")
NoneCell == <<"<None>">>
EmptyCell == <<>>
Digits == <<"0", "1", "2", "3", "4", "5", "6", "7", "8", "9">>
IsDigit(c) == \E i \in 1..10 : Digits[i] = c
DigitVal(c) == (CHOOSE i \in 1..10 : Digits[i] = c) - 1
AllDigits(str) == Len(str) >= 1 /\ \A i \in 1..Len(str) : IsDigit(str[i])

RECURSIVE DigitsVal(_)
\* the value of a string of digits
DigitsVal(str) ==
  IF str = <<>> THEN 0
  ELSE 10 * DigitsVal(SubSeq(str, 1, Len(str) - 1)) + DigitVal(str[Len(str)])

HasSign(str) == Len(str) >= 1 /\ str[1] \in {"+", "-"}
Unsigned(str) == IF HasSign(str) THEN Tail(str) ELSE str
SignOf(str) == IF HasSign(str) /\ str[1] = "-" THEN -1 ELSE 1

\* int(cell): an optional sign and decimal digits; anything else is a
\* ValueError (the cells of the model hold no blanks or underscores)
PyInt(cell) ==
  IF cell # NoneCell /\ AllDigits(Unsigned(cell))
  THEN Return(IntV(SignOf(cell) * DigitsVal(Unsigned(cell))))
  ELSE Raise

\* the position of the decimal point of an unsigned literal, 0 if none
DotPos(str) ==
  IF \E i \in 1..Len(str) : str[i] = "."
  THEN CHOOSE i \in 1..Len(str) : str[i] = "." /\ \A j \in 1..(i - 1) : str[j] # "."
  ELSE 0

RECURSIVE Normalize(_, _)
\* num / 10^exp with exp minimal
Normalize(num, exp) ==
  IF exp > 0 /\ num % 10 = 0 THEN Normalize(num \div 10, exp - 1)
  ELSE FloatV(num, exp)

\* float(cell) on the decimal literals [+-]digits[.digits]; anything else of
\* the model's cells is a ValueError (no cell spells nan, inf or an exponent)
PyFloat(cell) ==
  LET u == Unsigned(cell)
      p == DotPos(u)
      ip == IF p = 0 THEN u ELSE SubSeq(u, 1, p - 1)
      fp == IF p = 0 THEN <<>> ELSE SubSeq(u, p + 1, Len(u))
  IN  IF /\ cell # NoneCell
         /\ Len(ip) + Len(fp) >= 1
         /\ \A i \in 1..Len(ip) : IsDigit(ip[i])
         /\ \A i \in 1..Len(fp) : IsDigit(fp[i])
      THEN LET m == Normalize(DigitsVal(ip \o fp), Len(fp))
           IN  Return(FloatV(SignOf(cell) * m.n, m.e))
      ELSE Raise

\* int == float in Python: equal values (the cells are far below 2^53)
IntEqFloat(i, f) == f.e = 0 /\ f.n = i.n

(***************************************************************************)
(* The cells, rows and schemas the model draws its inputs from.            *)
(***************************************************************************)
c_1 == <<"1">>
c_2 == <<"2">>
c_1p5 == <<"1", ".", "5">>
c_3p0 == <<"3", ".", "0">>
c_m4 == <<"-", "4">>
c_x == <<"x">>
c_t == <<"t">>
c_NaN == <<"N", "a", "N">>
c_null == <<"n", "u", "l", "l">>
c_true == <<"t", "r", "u", "e">>
c_True == <<"T", "r", "u", "e">>
c_TRUE == <<"T", "R", "U", "E">>
c_false == <<"f", "a", "l", "s", "e">>
c_False == <<"F", "a", "l", "s", "e">>
c_FALSE == <<"F", "A", "L", "S", "E">>
c_0 == <<"0">>
c_f == <<"f">>
c_bob == <<"b", "o", "b">>
c_mail == <<"a", "@", "b", ".", "c">>
c_admin == <<"a", "d", "m", "i", "n">>
c_user == <<"u", "s", "e", "r">>
c_iso == <<"2", "0", "2", "0", "-", "0", "1", "-", "0", "2", "T",
           "0", "3", ":", "0", "4", ":", "0", "5">>
c_id == <<"i", "d">>
c_username == <<"u", "s", "e", "r", "n", "a", "m", "e">>
c_email == <<"e", "m", "a", "i", "l">>
c_score == <<"s", "c", "o", "r", "e">>
c_is_active == <<"i", "s", "_", "a", "c", "t", "i", "v", "e">>
c_user_role == <<"u", "s", "e", "r", "_", "r", "o", "l", "e">>
c_created_at == <<"c", "r", "e", "a", "t", "e", "d", "_", "a", "t">>

\* one entry of schema["properties"]; enum = {} where the entry has none
Field(name, type, format, enum) ==
  [name |-> name, type |-> type, format |-> format, enum |-> enum]

\* id, username and email, all required (the layout of the spec's scenario A)
UserSchema ==
  [properties |-> << Field(c_id, "integer", "", {}),
                     Field(c_username, "string", "", {}),
                     Field(c_email, "string", "email", {}) >>,
   required |-> {c_id, c_username, c_email}]

\* a schema whose first field has a type without a coercion rule
ScoreSchema ==
  [properties |-> << Field(c_score, "number", "", {}),
                     Field(c_id, "integer", "", {}),
                     Field(c_username, "string", "", {}) >>,
   required |-> {c_id}]

\* boolean, enum and date-time fields, as in EXAMPLE_SCHEMA
RoleSchema ==
  [properties |-> << Field(c_id, "integer", "", {}),
                     Field(c_is_active, "boolean", "", {}),
                     Field(c_user_role, "string", "", {c_admin, c_user}),
                     Field(c_created_at, "string", "date-time", {}) >>,
   required |-> {c_id}]

Schemas == {UserSchema, ScoreSchema, RoleSchema}

Rows ==
  { <<c_id, c_username, c_email>>,
    <<c_1, c_bob, c_mail>>,
    <<c_2, c_bob, c_bob>>,
    <<EmptyCell, c_bob, c_mail>>,
    <<c_1p5, c_2, c_bob>>,
    <<c_1, c_true, c_admin, c_iso>>,
    <<c_2, c_x, c_x, c_x>> }

RECURSIVE SeqsUpTo(_, _)
\* the sequences over S of length at most k
SeqsUpTo(S, k) ==
  IF k = 0 THEN {<<>>}
  ELSE LET shorter == SeqsUpTo(S, k - 1)
       IN  shorter \cup {Append(q, x) : q \in {r \in shorter : Len(r) = k - 1}, x \in S}

Files == SeqsUpTo(Rows, MaxRows)

Range(q) == {q[i] : i \in 1..Len(q)}
Min(a, b) == IF a < b THEN a ELSE b
FieldNames(schema) == {schema.properties[i].name : i \in 1..Len(schema.properties)}

(***************************************************************************)
(* CSVProcessor: the coercion functions.  cfg is the processor's           *)
(* strict_mode, use_zero_for_null_numerics and csv_has_header.             *)
(***************************************************************************)
\* the str members of TRUE_VALUES, FALSE_VALUES and NULL_VALUES, and None;
\* their int and bool members equal no str and no cell is one
TRUE_VALUES == {c_true, c_True, c_TRUE, c_1, c_t}
FALSE_VALUES == {c_false, c_False, c_FALSE, c_0, c_f}
NULL_VALUES == {c_NaN, c_null, NoneCell, EmptyCell}

\* SCHEMA_PROCESSING_MAP.get(data_type): "" where the map has no entry
SCHEMA_PROCESSING_MAP(data_type) ==
  CASE data_type = "integer" -> "process_numeric"
    [] data_type = "string" -> "process_generic_cell"
    [] data_type = "boolean" -> "process_boolean"
    [] OTHER -> ""

\* what dateutil's parser.parse(cell).isoformat() may do: it raises on an
\* empty or absent cell, returns an ISO timestamp unchanged, and on every
\* other cell either raises or returns some timestamp (left open)
DateutilOutcomes(cell) ==
  IF cell \in {EmptyCell, NoneCell} THEN {Raise}
  ELSE IF cell = c_iso THEN {Return(StrV(c_iso))}
  ELSE {Raise, Return(StrV(c_iso))}

\* parsed: what parser.parse(...).isoformat() did
process_datetime(cell, cfg, parsed) ==
  IF ~parsed.raised THEN parsed
  ELSE IF cfg.strict_mode THEN Raise
  ELSE Return(NoneV)

process_generic_cell(cell, field_type, cfg) ==
  IF cell \in {EmptyCell, NoneCell}
  THEN IF cfg.strict_mode THEN Raise
       ELSE CASE field_type = "string" -> Return(StrV(<<>>))
              [] field_type \in {"number", "integer"} ->
                   Return(IF ~cfg.use_zero_for_null_numerics THEN NoneV ELSE IntV(0))
              [] field_type = "boolean" -> Return(BoolV(FALSE))
              [] OTHER -> Return(NoneV)
  ELSE Return(StrV(cell))

\* process_numeric with the use_zero_for_null_numerics test the wrong way round
process_numeric_FlagInverted(cell, cfg) ==
  IF cell \in NULL_VALUES
  THEN IF cfg.strict_mode THEN Raise
       ELSE Return(IF cfg.use_zero_for_null_numerics THEN NoneV ELSE IntV(0))
  ELSE IF PyInt(cell).raised THEN Raise
  ELSE IF PyFloat(cell).raised THEN Raise
  ELSE IF IntEqFloat(PyInt(cell).val, PyFloat(cell).val) THEN PyInt(cell)
  ELSE PyFloat(cell)

process_numeric(cell, cfg) ==
  IF cell \in NULL_VALUES
  THEN IF cfg.strict_mode THEN Raise
       ELSE Return(IF ~cfg.use_zero_for_null_numerics THEN NoneV ELSE IntV(0))
  ELSE IF PyInt(cell).raised THEN Raise
  ELSE IF PyFloat(cell).raised THEN Raise
  ELSE IF IntEqFloat(PyInt(cell).val, PyFloat(cell).val) THEN PyInt(cell)
  ELSE PyFloat(cell)

process_boolean(cell, cfg) ==
  IF cell \in TRUE_VALUES THEN Return(BoolV(TRUE))
  ELSE IF cell \in FALSE_VALUES THEN Return(BoolV(FALSE))
  ELSE IF cfg.strict_mode THEN Raise
  ELSE Return(NoneV)

process_enum(cell, enum_values, cfg) ==
  IF cell \in enum_values THEN Return(StrV(cell))
  ELSE IF cfg.strict_mode THEN Raise
  ELSE Return(NoneV)

seems_to_be_header(row, schema) == Range(row) = FieldNames(schema)

(***************************************************************************)
(* Validator.                                                              *)
(***************************************************************************)
\* re.match(r"[^@]+@[^@]+\.[^@]+", email) is not None, on a str: a match of
\* a prefix, so the first @ follows at least one character, and some later
\* dot has only non-@ between it and the @ and a non-@ after it
EmailMatches(str) ==
  \E p \in 2..Len(str) :
    /\ str[p] = "@"
    /\ \A j \in 1..(p - 1) : str[j] # "@"
    /\ \E k \in (p + 2)..(Len(str) - 1) :
         /\ str[k] = "."
         /\ \A j \in (p + 1)..(k - 1) : str[j] # "@"
         /\ str[k + 1] # "@"

\* re.match raises TypeError on a value that is not a str
is_valid_email(value) ==
  IF ~IsInstanceStr(value) THEN Raise ELSE Return(BoolV(EmailMatches(value.s)))

\* d for a digit, the character itself otherwise
Shape(str) == [i \in 1..Len(str) |-> IF IsDigit(str[i]) THEN "d" ELSE str[i]]
DateTimeShape ==
  <<"d", "d", "d", "d", "-", "d", "d", "-", "d", "d", "T",
    "d", "d", ":", "d", "d", ":", "d", "d">>
OffsetShapes == {<<"+", "d", "d", ":", "d", "d">>, <<"-", "d", "d", ":", "d", "d">>}

\* ^\d{4}-\d{2}-\d{2}T\d{2}:\d{2}:\d{2}(Z|[+-]\d{2}:\d{2})?$
DateTimeMatches(str) ==
  /\ Len(str) >= 19
  /\ SubSeq(Shape(str), 1, 19) = DateTimeShape
  /\ \/ Len(str) = 19
     \/ Len(str) = 20 /\ str[20] = "Z"
     \/ Len(str) = 25 /\ SubSeq(Shape(str), 20, 25) \in OffsetShapes

is_valid_datetime(value) ==
  IF ~IsInstanceStr(value) THEN Raise ELSE Return(BoolV(DateTimeMatches(value.s)))

\* row_dict.get(key)
DictGet(row_dict, key) == IF key \in DOMAIN row_dict THEN row_dict[key] ELSE NoneV

\* one turn of the loop over schema["properties"]: "next" where the loop goes
\* on, otherwise what validate_data_against_schema returns or raises
ValidateField(row_dict, schema, definition) ==
  LET key == definition.name
      value == DictGet(row_dict, key)
      expected_type == definition.type
  IN  IF key \notin DOMAIN row_dict /\ key \in schema.required THEN "False"
      ELSE IF expected_type = "integer" /\ ~IsInstanceInt(value) THEN "False"
      ELSE IF expected_type = "number"
                /\ (~IsInstanceFloat(value) /\ ~IsInstanceInt(value)) THEN "False"
      ELSE IF expected_type = "string" /\ ~IsInstanceStr(value) THEN "False"
      ELSE IF expected_type = "boolean" /\ ~IsInstanceBool(value) THEN "False"
      ELSE IF definition.format = "email"
           THEN IF is_valid_email(value).raised THEN "raise"
                ELSE IF ~is_valid_email(value).val.b THEN "False"
                ELSE "next"
      ELSE IF definition.format = "date-time"
           THEN IF is_valid_datetime(value).raised THEN "raise"
                ELSE IF ~is_valid_datetime(value).val.b THEN "False"
                ELSE "next"
      ELSE "next"

RECURSIVE ValidateRow(_, _, _)
\* the loop over schema["properties"], from its i-th entry on
ValidateRow(row_dict, schema, i) ==
  IF i > Len(schema.properties) THEN "next"
  ELSE LET r == ValidateField(row_dict, schema, schema.properties[i])
       IN  IF r = "next" THEN ValidateRow(row_dict, schema, i + 1) ELSE r

RECURSIVE ValidateFrom(_, _, _)
\* the loop over data, from its k-th row on
ValidateFrom(data, schema, k) ==
  IF k > Len(data) THEN "True"
  ELSE LET r == ValidateRow(data[k], schema, 1)
       IN  IF r = "next" THEN ValidateFrom(data, schema, k + 1) ELSE r

\* "True", "False", or "raise" for an exception
validate_data_against_schema(data, schema) == ValidateFrom(data, schema, 1)

(***************************************************************************)
(* CSVProcessor.process_csv: one row of the loop.                          *)
(***************************************************************************)
\* the body of the loop over zip(row, properties) for a field that has a
\* coercion rule: the dispatch to the process_ functions
CoerceCell(column, value, cfg, parsed) ==
  IF value.enum # {} THEN process_enum(column, value.enum, cfg)
  ELSE IF value.format = "date-time" THEN process_datetime(column, cfg, parsed)
  ELSE CASE SCHEMA_PROCESSING_MAP(value.type) = "process_numeric" ->
              process_numeric(column, cfg)
         [] SCHEMA_PROCESSING_MAP(value.type) = "process_boolean" ->
              process_boolean(column, cfg)
         [] OTHER -> process_generic_cell(column, "string", cfg)

\* whether the loop body finds no processing function for the field
NoRule(value) ==
  value.enum = {} /\ value.format # "date-time" /\ SCHEMA_PROCESSING_MAP(value.type) = ""

RECURSIVE ProcessFields(_, _, _, _, _, _)
\* the loop over zip(row, schema["properties"].items()) from the i-th pair
\* on: "ok" with the processed_row, "return" (strict mode, no processing
\* function) or "raise" (a process_ function raised)
ProcessFields(row, properties, cfg, parsed, i, processed_row) ==
  IF i > Min(Len(row), Len(properties))
  THEN [status |-> "ok", processed_row |-> processed_row]
  ELSE IF NoRule(properties[i])
       THEN IF cfg.strict_mode
            THEN [status |-> "return", processed_row |-> processed_row]
            ELSE ProcessFields(row, properties, cfg, parsed, i + 1, processed_row)
       ELSE LET out == CoerceCell(row[i], properties[i], cfg, parsed[i])
            IN  IF out.raised
                THEN [status |-> "raise", processed_row |-> processed_row]
                ELSE ProcessFields(row, properties, cfg, parsed, i + 1,
                                   Append(processed_row, out.val))

\* dict(zip(schema["properties"].keys(), processed_row))
RowDict(properties, processed_row) ==
  LET k == Min(Len(properties), Len(processed_row))
  IN  [key \in {properties[i].name : i \in 1..k} |->
         processed_row[CHOOSE i \in 1..k : properties[i].name = key]]

\* what dateutil may do on the date-time cells of a row, per position
ParsedChoices(row, properties) ==
  LET k == Min(Len(row), Len(properties))
  IN  {f \in [1..k -> {Raise, Return(StrV(c_iso))}] :
         \A i \in 1..k :
           f[i] \in (IF properties[i].enum = {} /\ properties[i].format = "date-time"
                     THEN DateutilOutcomes(row[i]) ELSE {Raise})}

\* RowStep without the return on a validation failure in strict mode
RowStep_NoStrictReturn(row, schema, cfg, parsed) ==
  LET f == ProcessFields(row, schema.properties, cfg, parsed, 1, <<>>)
      row_dict == RowDict(schema.properties, f.processed_row)
      valid == IF f.status = "ok"
               THEN validate_data_against_schema(<<row_dict>>, schema) ELSE "none"
  IN  [processed_row |-> f.processed_row,
       valid |-> valid,
       next |-> IF f.status = "raise" \/ valid = "raise" THEN "raised"
                ELSE IF f.status = "return" THEN "returned"
                ELSE "loop"]

\* one turn of the loop over the reader's rows: what becomes of the run
\* ("loop": it goes on), the processed_row, and whether it was appended
RowStep(row, schema, cfg, parsed) ==
  LET f == ProcessFields(row, schema.properties, cfg, parsed, 1, <<>>)
      row_dict == RowDict(schema.properties, f.processed_row)
      valid == IF f.status = "ok"
               THEN validate_data_against_schema(<<row_dict>>, schema) ELSE "none"
  IN  [processed_row |-> f.processed_row,
       valid |-> valid,
       next |-> IF f.status = "raise" \/ valid = "raise" THEN "raised"
                ELSE IF f.status = "return" THEN "returned"
                ELSE IF valid = "False" /\ cfg.strict_mode THEN "returned"
                ELSE "loop"]

(***************************************************************************)
(* DatabaseManager.                                                        *)
(***************************************************************************)
\* the SQL type of a column, or "KeyError" where type_mapping has no entry
get_sql_type(detail) ==
  CASE detail.type = "string" ->
         (IF detail.format = "date-time" THEN "TIMESTAMP WITH TIME ZONE"
          ELSE "VARCHAR(255)")
    [] detail.type = "integer" -> "SERIAL"
    [] detail.type = "boolean" -> "BOOLEAN"
    [] OTHER -> "KeyError"

\* create_table: "KeyError" before any statement where a column has no SQL
\* type, "DuplicateTable" where CREATE TABLE finds the table, else "created"
create_table(schema, exists) ==
  IF \E i \in 1..Len(schema.properties) : get_sql_type(schema.properties[i]) = "KeyError"
  THEN "KeyError"
  ELSE IF exists THEN "DuplicateTable"
  ELSE "created"

\* ensure_table_exists: "exists" where table_exists() is true and nothing is
\* done, else what create_table does
ensure_table_exists(schema, exists) ==
  IF ~exists THEN create_table(schema, exists) ELSE "exists"

(***************************************************************************)
(* State.                                                                  *)
(***************************************************************************)
VARIABLES
  config,          \* the processor's flags and schema
  file,            \* the lines of the CSV file, as the reader splits them
  pc,              \* where process_csv is
  pos,             \* how many lines of the file the reader is past
  has_header,      \* process_csv's has_header
  row_number,      \* process_csv's row_number
  processed_data,  \* process_csv's processed_data
  log,             \* history: one record per turn of the loop over the rows
  table,           \* whether the table exists in the database
  sink,            \* the running insert_data call
  calls,           \* history: the batches the processor handed to insert_data
  ensureLog,       \* history: the ensure_table_exists calls made in a row
  probe            \* the last direct call of a function, with its result

vars == <<config, file, pc, pos, has_header, row_number, processed_data, log,
          table, sink, calls, ensureLog, probe>>
csvVars == <<file, pc, pos, has_header, row_number, processed_data, log, calls>>

IdleSink == [pc |-> "idle", data |-> <<>>, attempts |-> 0, creates |-> 0,
             committed |-> FALSE]
NoProbe == [op |-> "none", cell |-> <<>>, field |-> Field(<<>>, "", "", {}),
            present |-> FALSE, value |-> NoneV, strict |-> FALSE, zero |-> FALSE,
            out |-> Raise,
            turn |-> [processed_row |-> <<>>, valid |-> "none", next |-> "none"]]

Configs ==
  [strict_mode : BOOLEAN, use_zero_for_null_numerics : BOOLEAN,
   csv_has_header : BOOLEAN, schema : Schemas]

InitCommon ==
  /\ config \in Configs
  /\ pos = 0
  /\ has_header = FALSE
  /\ row_number = 0
  /\ processed_data = <<>>
  /\ log = <<>>
  /\ table \in BOOLEAN
  /\ sink = IdleSink
  /\ calls = <<>>
  /\ ensureLog = <<>>
  /\ probe = NoProbe

\* a processor constructed on a file, before process_csv
Init ==
  /\ InitCommon
  /\ file \in Files
  /\ pc = "start"

(***************************************************************************)
(* process_csv.                                                            *)
(***************************************************************************)
\* ReadFirst without file.seek(0)
ReadFirst_NoSeek ==
  /\ pc = "start"
  /\ IF file = <<>>
     THEN /\ pc' = "raised"
          /\ UNCHANGED <<pos, has_header>>
     ELSE LET first_row == file[1]
              hh == config.csv_has_header \/ seems_to_be_header(first_row, config.schema)
          IN  /\ has_header' = hh
              /\ pos' = 1
              /\ pc' = "loop"
  /\ UNCHANGED <<config, file, row_number, processed_data, log, table, sink, calls,
                 ensureLog, probe>>

\* first_row = next(reader), has_header, and the seek back to the start;
\* next() raises StopIteration on an empty file
ReadFirst ==
  /\ pc = "start"
  /\ IF file = <<>>
     THEN /\ pc' = "raised"
          /\ UNCHANGED <<pos, has_header>>
     ELSE LET first_row == file[1]
              hh == config.csv_has_header \/ seems_to_be_header(first_row, config.schema)
          IN  /\ has_header' = hh
              /\ pos' = IF ~hh THEN 0 ELSE 1
              /\ pc' = "loop"
  /\ UNCHANGED <<config, file, row_number, processed_data, log, table, sink, calls,
                 ensureLog, probe>>

\* one turn of "for row in reader"
ProcessRow ==
  /\ pc = "loop"
  /\ pos < Len(file)
  /\ \E parsed \in ParsedChoices(file[pos + 1], config.schema.properties) :
       LET row == file[pos + 1]
           r == RowStep(row, config.schema, config, parsed)
       IN  /\ pos' = pos + 1
           /\ row_number' = row_number + 1
           /\ pc' = r.next
           /\ processed_data' = IF r.next = "loop"
                                THEN Append(processed_data, r.processed_row)
                                ELSE processed_data
           /\ log' = Append(log, [line |-> pos + 1, row |-> row, parsed |-> parsed,
                                  processed_row |-> r.processed_row,
                                  valid |-> r.valid, next |-> r.next])
  /\ UNCHANGED <<config, file, has_header, table, sink, calls, ensureLog, probe>>

\* Finish with the insert inside the loop over the rows
Finish_InsideLoop ==
  /\ pc = "loop"
  /\ pos <= Len(file)
  /\ sink.pc = "idle"
  /\ pc' = "inserting"
  /\ calls' = Append(calls, processed_data)
  /\ sink' = [IdleSink EXCEPT !.pc = "ensure", !.data = processed_data]
  /\ UNCHANGED <<config, file, pos, has_header, row_number, processed_data, log,
                 table, ensureLog, probe>>

\* the reader is exhausted: insert_into_postgres(processed_data), which
\* calls db_manager.insert_data (db_manager is never false after __init__)
Finish ==
  /\ pc = "loop"
  /\ pos = Len(file)
  /\ sink.pc = "idle"
  /\ pc' = "inserting"
  /\ calls' = Append(calls, processed_data)
  /\ sink' = [IdleSink EXCEPT !.pc = "ensure", !.data = processed_data]
  /\ UNCHANGED <<config, file, pos, has_header, row_number, processed_data, log,
                 table, ensureLog, probe>>

\* insert_data returns to process_csv, or its exception passes through it
ProcessCsvReturn ==
  /\ pc = "inserting"
  /\ sink.pc \in {"done", "raised", "cut"}
  /\ pc' = IF sink.pc = "raised" THEN "raised" ELSE "done"
  /\ sink' = [sink EXCEPT !.pc = "idle"]
  /\ UNCHANGED <<config, file, pos, has_header, row_number, processed_data, log,
                 table, calls, ensureLog, probe>>

(***************************************************************************)
(* insert_data, step by step.                                              *)
(***************************************************************************)
\* self.ensure_table_exists(schema, table_name), first statement of insert_data
SinkEnsure ==
  /\ sink.pc = "ensure"
  /\ LET r == ensure_table_exists(config.schema, table)
     IN  /\ table' = (table \/ r = "created")
         /\ sink' = [sink EXCEPT
                       !.pc = IF r \in {"exists", "created"} THEN "attempt" ELSE "raised",
                       !.creates = IF r = "created" THEN @ + 1 ELSE @]
  /\ UNCHANGED <<config, csvVars, ensureLog, probe>>

\* the try block: data[0] raises IndexError on an empty batch (swallowed);
\* the INSERT raises UndefinedTable where the table is missing, and the
\* handler calls create_table and then insert_data again; otherwise the
\* INSERT commits, or fails and is swallowed.  In the handler CREATE TABLE
\* runs on the connection of the failed INSERT: in a transaction block
\* PostgreSQL refuses it (the exception leaves insert_data), on an
\* autocommit connection it runs
SinkAttempt ==
  /\ sink.pc = "attempt"
  /\ IF sink.data = <<>>
     THEN /\ sink' = [sink EXCEPT !.pc = "done"]
          /\ table' = table
     ELSE IF ~table
     THEN \E refused \in BOOLEAN :
            LET r == IF refused THEN "InFailedSqlTransaction"
                     ELSE create_table(config.schema, table)
            IN  /\ table' = (r = "created")
                /\ sink' = [sink EXCEPT
                              !.attempts = @ + 1,
                              !.creates = IF r = "created" THEN @ + 1 ELSE @,
                              !.pc = IF r # "created" THEN "raised"
                                     ELSE IF sink.attempts + 1 >= MaxAttempts THEN "cut"
                                     ELSE "ensure"]
     ELSE /\ table' = table
          /\ \E ok \in BOOLEAN :
               sink' = [sink EXCEPT !.attempts = @ + 1, !.pc = "done",
                                    !.committed = ok]
  /\ UNCHANGED <<config, csvVars, ensureLog, probe>>

\* drop_table, by this or another session.  While process_csv reads its rows
\* the table is not looked at, so a drop there is one more initial state
DropTable ==
  /\ table
  /\ pc \in {"idle", "inserting"}
  /\ table' = FALSE
  /\ ensureLog' = <<>>
  /\ UNCHANGED <<config, csvVars, sink, probe>>

Next == ReadFirst \/ ProcessRow \/ Finish \/ ProcessCsvReturn
          \/ SinkEnsure \/ SinkAttempt \/ DropTable

Spec == Init /\ [][Next]_vars

(***************************************************************************)
(* The sink called directly, by any client.                                *)
(***************************************************************************)
Batches == {<<>>, << <<IntV(1), StrV(c_bob), StrV(c_mail)>> >>}

\* a DatabaseManager alone, no processor running
SinkInit ==
  /\ InitCommon
  /\ file = <<>>
  /\ pc = "idle"

\* a client calls insert_data(table_name, data, schema)
CallInsertData ==
  /\ pc = "idle"
  /\ sink.pc = "idle"
  /\ \E data \in Batches : sink' = [IdleSink EXCEPT !.pc = "ensure", !.data = data]
  /\ ensureLog' = <<>>
  /\ UNCHANGED <<config, csvVars, table, probe>>

\* insert_data returns to the client, or raises
SinkReturn ==
  /\ pc = "idle"
  /\ sink.pc \in {"done", "raised", "cut"}
  /\ sink' = [sink EXCEPT !.pc = "idle"]
  /\ UNCHANGED <<config, csvVars, table, ensureLog, probe>>

\* a client calls ensure_table_exists(schema, table_name)
CallEnsureTableExists ==
  /\ pc = "idle"
  /\ sink.pc = "idle"
  /\ LET r == ensure_table_exists(config.schema, table)
         entry == [existed |-> table, result |-> r]
     IN  /\ table' = (table \/ r = "created")
         /\ ensureLog' = IF Len(ensureLog) = 2 THEN <<ensureLog[2], entry>>
                         ELSE Append(ensureLog, entry)
  /\ UNCHANGED <<config, csvVars, sink, probe>>

\* a client calls create_table(schema, table_name)
CallCreateTable ==
  /\ pc = "idle"
  /\ sink.pc = "idle"
  /\ table' = (table \/ create_table(config.schema, table) = "created")
  /\ ensureLog' = <<>>
  /\ UNCHANGED <<config, csvVars, sink, probe>>

SinkNext == CallInsertData \/ SinkReturn \/ CallEnsureTableExists \/ CallCreateTable
              \/ SinkEnsure \/ SinkAttempt \/ DropTable

SinkSpec == SinkInit /\ [][SinkNext]_vars

(***************************************************************************)
(* The pure functions called directly.  They keep no state, so one call    *)
(* in a behaviour shows all a call can do.                                 *)
(***************************************************************************)
NumericCells ==
  {c_1, c_2, c_0, c_m4, c_1p5, c_3p0, c_x, c_bob, c_NaN, c_null, EmptyCell, NoneCell}
FieldTypes == {"integer", "number", "string", "boolean"}
Formats == {"", "email", "date-time"}
Values ==
  {IntV(1), IntV(0), FloatV(15, 1), StrV(c_bob), StrV(c_mail), StrV(c_iso),
   BoolV(TRUE), BoolV(FALSE), NoneV}

\* process_numeric(cell) on a processor with the given flags
CallProcessNumeric ==
  /\ pc = "idle"
  /\ probe = NoProbe
  /\ \E cell \in NumericCells, strict \in BOOLEAN, zero \in BOOLEAN :
       probe' = [NoProbe EXCEPT
                   !.op = "process_numeric", !.cell = cell, !.strict = strict,
                   !.zero = zero,
                   !.out = process_numeric(cell, [strict_mode |-> strict,
                                                  use_zero_for_null_numerics |-> zero])]
  /\ UNCHANGED <<config, csvVars, table, sink, ensureLog>>

\* the out of a validate_data_against_schema call
ValidateOut(r) == IF r = "raise" THEN Raise ELSE Return(BoolV(r = "True"))

\* validate_data_against_schema([row], schema), schema of one field, row
\* holding the field (present) or not
CallValidate ==
  /\ pc = "idle"
  /\ probe = NoProbe
  /\ \E type \in FieldTypes, format \in Formats, required \in BOOLEAN,
        present \in BOOLEAN, value \in Values :
       LET field == Field(c_id, type, format, {})
           schema == [properties |-> <<field>>,
                      required |-> IF required THEN {c_id} ELSE {}]
           row == IF present THEN [key \in {c_id} |-> value] ELSE [key \in {} |-> value]
       IN  probe' = [NoProbe EXCEPT
                       !.op = IF required THEN "validate_required" ELSE "validate",
                       !.field = field, !.present = present,
                       !.value = IF present THEN value ELSE NoneV,
                       !.out = ValidateOut(validate_data_against_schema(<<row>>, schema))]
  /\ UNCHANGED <<config, csvVars, table, sink, ensureLog>>

\* one turn of process_csv's loop on a row of one cell, under a schema of
\* one integer field, required or not
CallRowStep ==
  /\ pc = "idle"
  /\ probe = NoProbe
  /\ \E cell \in NumericCells, strict \in BOOLEAN, zero \in BOOLEAN, required \in BOOLEAN :
       LET field == Field(c_id, "integer", "", {})
           schema == [properties |-> <<field>>,
                      required |-> IF required THEN {c_id} ELSE {}]
           cfg == [strict_mode |-> strict, use_zero_for_null_numerics |-> zero]
       IN  probe' = [NoProbe EXCEPT
                       !.op = IF required THEN "row_required" ELSE "row",
                       !.cell = cell, !.strict = strict, !.zero = zero, !.field = field,
                       !.turn = RowStep(<<cell>>, schema, cfg, <<Raise>>)]
  /\ UNCHANGED <<config, csvVars, table, sink, ensureLog>>

UnitNext == CallProcessNumeric \/ CallValidate \/ CallRowStep

UnitSpec == SinkInit /\ [][UnitNext]_vars

(***************************************************************************)
(* Properties.                                                             *)
(***************************************************************************)
\* the processed rows of the turns a predicate holds of, in order
TuplesOf(entries) == [k \in 1..Len(entries) |-> entries[k].processed_row]
PassedValidation(e) == e.valid = "True"
WasAppended(e) == e.next = "loop"
NullSentinels == {EmptyCell, c_NaN, c_null, NoneCell}

\* C1: in lenient mode the batch handed to the sink holds exactly the tuples
\* of the rows that passed validation, in order: a row that failed it is
\* skipped and the rows after it are still processed.
C1_LenientBatchOnlyValidRows ==
  (~config.strict_mode /\ calls # <<>>) =>
    calls[1] = TuplesOf(SelectSeq(log, PassedValidation))

\* C2: in strict mode a row whose coercion or validation fails is the last
\* row processed, the run has ended by a return or an exception, and
\* insert_data has not been called and never runs.
C2_StrictFailureAborts ==
  config.strict_mode =>
    \A k \in 1..Len(log) :
      log[k].valid # "True" =>
        /\ k = Len(log)
        /\ pc \in {"raised", "returned"}
        /\ calls = <<>>
        /\ sink = IdleSink

\* a strict run that accumulated one row and then raised on an empty
\* numeric cell in its second row
C2_Witness ==
  /\ config.strict_mode
  /\ Len(log) = 2
  /\ log[2].row[1] = EmptyCell
  /\ log[2].valid = "none"
  /\ Len(processed_data) = 1
  /\ pc = "raised"
  /\ calls = <<>>

\* C3: insert_data is called at most once by a run, only when the reader is
\* past the last line, with the whole processed_data, whose tuples are those
\* of the appended rows in source order; a run that reaches the insert or
\* its end has called it exactly once.
C3_SingleInsertAfterLastRow ==
  /\ Len(calls) <= 1
  /\ calls # <<>> =>
       /\ pos = Len(file)
       /\ Len(log) = Len(file) - (IF has_header THEN 1 ELSE 0)
       /\ calls[1] = processed_data
       /\ calls[1] = TuplesOf(SelectSeq(log, WasAppended))
       /\ \A j, k \in 1..Len(log) : j < k => log[j].line < log[k].line
  /\ pc \in {"inserting", "done"} => Len(calls) = 1
  /\ sink.pc # "idle" => Len(calls) = 1

\* a finished run whose one insert_data call received two tuples
C3_Witness ==
  /\ pc = "done"
  /\ Len(calls) = 1
  /\ Len(calls[1]) = 2
  /\ Len(file) = 2

\* C4: once the first line is read, it is discarded exactly if
\* csv_has_header is set or its cells, as a set, are the schema's field
\* names; the k-th turn of the loop processes line k + 1 if it was
\* discarded and line k if not, and the reader stands right after the
\* lines processed.
C4_HeaderDetection ==
  (pc # "start" /\ file # <<>>) =>
    LET discard == config.csv_has_header \/ Range(file[1]) = FieldNames(config.schema)
        off == IF discard THEN 1 ELSE 0
    IN  /\ has_header = discard
        /\ \A k \in 1..Len(log) : log[k].line = k + off
        /\ pos = Len(log) + off

\* csv_has_header is false, the first line spells the field names, and the
\* first row processed is line 2
C4_Witness ==
  /\ ~config.csv_has_header
  /\ Len(file) = 2
  /\ Range(file[1]) = FieldNames(config.schema)
  /\ Len(log) = 1
  /\ log[1].line = 2

\* C5: on a cell outside the null sentinels, process_numeric returns the int
\* of an integral decimal literal, the float of any other decimal literal,
\* and raises on a cell that is no number.
C5_NumericCoercion ==
  (probe.op = "process_numeric" /\ probe.cell \notin NullSentinels) =>
    IF ~PyFloat(probe.cell).raised
    THEN LET v == PyFloat(probe.cell).val
         IN  probe.out = Return(IF v.e = 0 THEN IntV(v.n) ELSE v)
    ELSE probe.out.raised

\* C6: in every appended tuple, element i is the coerced value of the i-th
\* schema field, for every paired position i whose field has a coercion
\* rule.
C6_TupleAlignedWithSchema ==
  \A k \in 1..Len(log) :
    WasAppended(log[k]) =>
      LET e == log[k]
          properties == config.schema.properties
      IN  \A i \in 1..Min(Len(e.row), Len(properties)) :
            ~NoRule(properties[i]) =>
              /\ i <= Len(e.processed_row)
              /\ e.processed_row[i] =
                   CoerceCell(e.row[i], properties[i], config, e.parsed[i]).val

\* C7: one insert_data call of the processor executes the INSERT at most
\* twice.
C7_AtMostTwoAttempts == sink.attempts <= 2

\* C8: on a null sentinel process_numeric raises in strict mode, returns 0
\* in lenient mode with use_zero_for_null_numerics and None without it; a
\* turn of the loop on such a cell of an integer field does the same, and
\* the row holding the None fails validation when the field is required.
C8_NullSentinelPolicy ==
  /\ (probe.op = "process_numeric" /\ probe.cell \in NullSentinels) =>
       probe.out = (IF probe.strict THEN Raise
                    ELSE IF probe.zero THEN Return(IntV(0))
                    ELSE Return(NoneV))
  /\ (probe.op \in {"row", "row_required"} /\ probe.cell \in NullSentinels) =>
       IF probe.strict THEN probe.turn.next = "raised"
       ELSE IF probe.zero THEN probe.turn.processed_row = <<IntV(0)>>
       ELSE /\ probe.turn.processed_row = <<NoneV>>
            /\ probe.op = "row_required" => probe.turn.valid = "False"

\* a lenient turn without the zero flag on the cell NaN of a required
\* integer field: the row holds None and fails validation
C8_Witness ==
  /\ probe.op = "row_required"
  /\ probe.cell = c_NaN
  /\ ~probe.strict
  /\ ~probe.zero
  /\ probe.turn.processed_row = <<NoneV>>
  /\ probe.turn.valid = "False"

\* the type a field of the given type requires of a value
TypeHolds(type, value) ==
  CASE type = "integer" -> value.t = "int"
    [] type = "number" -> value.t \in {"int", "float"}
    [] type = "string" -> value.t = "str"
    [] type = "boolean" -> value.t = "bool"
    [] OTHER -> TRUE

\* C9: validate_data_against_schema never raises, and returns True only if
\* the value has the type of the field: an integer for integer, an integer
\* or a float for number, a string for string, a boolean for boolean.
C9_ValidatorTypeCheck ==
  probe.op \in {"validate", "validate_required"} =>
    /\ ~probe.out.raised
    /\ probe.out.val.b => TypeHolds(probe.field.type, probe.value)

\* C10: of two ensure_table_exists calls in a row, the second finds the
\* table and does nothing (no CREATE TABLE, no error), and the first
\* created the table exactly if it did not exist before.
C10_EnsureIdempotent ==
  Len(ensureLog) = 2 =>
    /\ ensureLog[2].result = "exists"
    /\ (ensureLog[1].result = "created") <=> ~ensureLog[1].existed
    /\ table

====
